---- MODULE Spec2Model ----
(***************************************************************************)
(* InboxOracle: the rule engine of process_rules.py (RuleProcessor), the   *)
(* ingestion of fetch_emails.py (fetch_and_store_emails), the Email record *)
(* of models.py and the service construction of auth.py.                   *)
(*                                                                         *)
(* Text is a sequence of one-character tokens.  A date literal is a text   *)
(* of a time token followed by an optional zone token; dateutil's parser   *)
(* is the operator parse, str(datetime) is the operator StrDatetime.       *)
(* The Mailbox Service is the remote label list `labels` and the label     *)
(* ids attached to each remote message, `msgLabels`; the Message Store is  *)
(* `db`, keyed by message id.                                              *)
(*                                                                         *)
(* A Mailbox Service call either succeeds or raises without effect; which  *)
(* call of an invocation raises is the input fp of apply_action.  The      *)
(* store's queries, merges and commits succeed.  Ingestion stores text in  *)
(* every text column, so no column is None; message bodies decode.         *)
(*                                                                         *)
(* Three specifications: Spec is a run of the command line (ingestion any  *)
(* number of times, construction, again after each construction that       *)
(* raised, then one process_emails pass; the two commands run one after    *)
(* the other, never at once); SpecEval and                                 *)
(* SpecDirect call the evaluator and _apply_action of a constructed        *)
(* processor directly, as test_rules.py does.                              *)
(***************************************************************************)
EXTENDS Integers, Sequences, FiniteSets, TLC

(* ------------------------------ bounds --------------------------------- *)
\* latest wall-clock second a stored or literal timestamp takes
MaxTime == 2
\* longest rule list of a rules file
MaxRules == 2
\* longest condition list handed to _evaluate_rule_conditions on its own
MaxConds == 2
\* number of direct _apply_action calls made on one processor
MaxCalls == 2
\* remote calls that fail during one engine pass
MaxFailures == 1

VARIABLES
    pc,              \* where the run is: new, ready, run, done, aborted, fatal;
                     \* eval and evaluated for a direct evaluator call
    gmail_service,   \* self.gmail_service: "service" or "None"
    session,         \* self.session: "unset", "open", "closed"
    rules_file,      \* the rules document on disk
    rules,           \* self.rules
    db,              \* Message Store: message id -> Email row
    db0,             \* the Message Store as last ingested, before the processor ran
    labels,          \* Mailbox Service: the label list, in list order
    msgLabels,       \* Mailbox Service: message id -> label ids attached
    emails,          \* process_emails: the rows returned by query.all()
    cur,             \* process_emails: positions of the three nested loops
    processed_count, \* process_emails: processed_count
    calls,           \* every Mailbox Service call the processor executed, in order
    applied,         \* every _apply_action invocation, in order
    before,          \* the store and the service as the last invocation found them
    probe,           \* the arguments of the last direct evaluator call
    verdict          \* what that evaluator call did

vars == <<pc, gmail_service, session, rules_file, rules, db, db0, labels,
          msgLabels, emails, cur, processed_count, calls, applied, before,
          probe, verdict>>

(* ------------------------------- text ---------------------------------- *)
Times == 0..MaxTime

TimeTokens == {ToString(t) : t \in Times}

ZoneTokens == {"Z", "+0", "+1", "-1"}

\* str.lower(), one character at a time
LowerChar(c) ==
    CASE c = "A" -> "a"
      [] c = "B" -> "b"
      [] c = "Z" -> "z"
      [] OTHER -> c

Lower(s) == [n \in 1..Len(s) |-> LowerChar(s[n])]

\* Python's `v in f` on strings
IsSubstring(v, f) ==
    \E n \in 0..(Len(f) - Len(v)) : SubSeq(f, n + 1, n + Len(v)) = v

(* ----------------------------- datetimes ------------------------------- *)
\* a datetime: wall-clock second t, and the UTC offset off when aware
Naive(t) == [aware |-> FALSE, t |-> t, off |-> 0]

Aware(t, off) == [aware |-> TRUE, t |-> t, off |-> off]

ZoneOffset(z) ==
    CASE z = "+1" -> 1
      [] z = "-1" -> 0 - 1
      [] OTHER -> 0

TimeOf(tok) == CHOOSE t \in Times : ToString(t) = tok

\* dateutil.parser.parse raises on a text that holds no date
ParseRaises(s) ==
    ~ \/ Len(s) = 1 /\ s[1] \in TimeTokens
      \/ Len(s) = 2 /\ s[1] \in TimeTokens /\ s[2] \in ZoneTokens

\* dateutil.parser.parse on a text it accepts
parse(s) ==
    IF Len(s) = 2 THEN Aware(TimeOf(s[1]), ZoneOffset(s[2]))
    ELSE Naive(TimeOf(s[1]))

ZoneStr(off) ==
    CASE off = 1 -> "+1"
      [] off = 0 - 1 -> "-1"
      [] OTHER -> "+0"

\* str(datetime): the wall clock, then the offset of an aware value
StrDatetime(d) ==
    IF d.aware THEN <<ToString(d.t), ZoneStr(d.off)>> ELSE <<ToString(d.t)>>

\* the instant an aware datetime denotes
Instant(d) == d.t - d.off

\* email.received.replace(tzinfo=timezone.utc)
ReceivedUtc(email) == Aware(email.received, 0)

(* ------------------------- condition evaluator ------------------------- *)
TextFields == {"From", "To", "Subject", "Message"}

\* the attribute a text field selector resolves to
FieldValue(email, field) ==
    CASE field = "From" -> email.sender
      [] field = "To" -> email.to
      [] field = "Subject" -> email.subject
      [] OTHER -> email.body

Returned(b) == [raised |-> FALSE, value |-> b]

Raised == [raised |-> TRUE, value |-> FALSE]

\* the predicate chain on a text field and a text value
EvalText(predicate, field_value, value) ==
    CASE predicate = "Contains" ->
            Returned(IsSubstring(Lower(value), Lower(field_value)))
      [] predicate = "Does not Contain" ->
            Returned(~IsSubstring(Lower(value), Lower(field_value)))
      [] predicate = "Equals" -> Returned(Lower(field_value) = Lower(value))
      [] predicate = "Does not Equal" -> Returned(Lower(field_value) # Lower(value))
      [] OTHER -> Returned(FALSE)

\* datetime == datetime: an aware and a naive value are never equal
DatetimeEq(a, b) == a.aware = b.aware /\ Instant(a) = Instant(b)

\* the predicate chain on the Received field and a parsed date; ordering an
\* aware datetime against a naive one raises TypeError
EvalDate(predicate, field_value, value) ==
    CASE predicate = "Contains" ->
            Returned(IsSubstring(Lower(StrDatetime(value)), Lower(StrDatetime(field_value))))
      [] predicate = "Does not Contain" ->
            Returned(~IsSubstring(Lower(StrDatetime(value)), Lower(StrDatetime(field_value))))
      [] predicate = "Equals" -> Returned(DatetimeEq(field_value, value))
      [] predicate = "Does not Equal" -> Returned(~DatetimeEq(field_value, value))
      [] predicate = "Less Than" ->
            IF value.aware THEN Returned(Instant(field_value) < Instant(value)) ELSE Raised
      [] predicate = "Greater Than" ->
            IF value.aware THEN Returned(Instant(field_value) > Instant(value)) ELSE Raised
      [] OTHER -> Returned(FALSE)

\* an evaluator whose field chain ends in the Message branch, not in return False
evaluate_condition_open(email, condition) ==
    IF condition.field = "Received"
    THEN IF ParseRaises(condition.value) THEN Raised
         ELSE EvalDate(condition.predicate, ReceivedUtc(email), parse(condition.value))
    ELSE EvalText(condition.predicate, FieldValue(email, condition.field), condition.value)

\* RuleProcessor._evaluate_condition
evaluate_condition(email, condition) ==
    IF condition.field \in TextFields
    THEN EvalText(condition.predicate, FieldValue(email, condition.field), condition.value)
    ELSE IF condition.field = "Received"
    THEN IF ParseRaises(condition.value) THEN Raised
         ELSE EvalDate(condition.predicate, ReceivedUtc(email), parse(condition.value))
    ELSE Returned(FALSE)

(* ----------------------------- rule matcher ---------------------------- *)
RECURSIVE AllOf(_)
\* Python's all(): false at the first false element, true at the end
AllOf(results) ==
    IF results = <<>> THEN TRUE
    ELSE IF ~Head(results) THEN FALSE
    ELSE AllOf(Tail(results))

RECURSIVE AnyOf(_)
\* Python's any(): true at the first true element, false at the end
AnyOf(results) ==
    IF results = <<>> THEN FALSE
    ELSE IF Head(results) THEN TRUE
    ELSE AnyOf(Tail(results))

\* the list comprehension of _evaluate_rule_conditions: every leaf, in order
LeafResults(email, conditions) ==
    [n \in 1..Len(conditions) |-> evaluate_condition(email, conditions[n])]

\* RuleProcessor._evaluate_rule_conditions
evaluate_rule_conditions(email, rule_conditions) ==
    LET results == LeafResults(email, rule_conditions.rules)
        values == [n \in 1..Len(results) |-> results[n].value]
    IN  IF \E n \in 1..Len(results) : results[n].raised THEN Raised
        ELSE IF rule_conditions.predicate = "All" THEN Returned(AllOf(values))
        ELSE IF rule_conditions.predicate = "Any" THEN Returned(AnyOf(values))
        ELSE Returned(FALSE)

(* --------------------------- action applicator ------------------------- *)
ActionTypes == {"mark_as_read", "mark_as_unread", "add_star", "remove_star",
                "move_message", "move_to_trash", "archive_message"}

\* one executed Mailbox Service request and whether it succeeded
RemoteCall(op, id, add, remove, name, ok) ==
    [op |-> op, id |-> id, add |-> add, remove |-> remove, name |-> name, ok |-> ok]

\* what one _apply_action invocation leaves behind, and the calls it made
Outcome(lbls, ml, store, made) ==
    [labels |-> lbls, msgLabels |-> ml, db |-> store, made |-> made]

\* the service's messages().modify: add label ids, then drop label ids
RemoteModify(ml, id, add, remove) == [ml EXCEPT ![id] = (@ \cup add) \ remove]

\* the service's messages().trash: into TRASH, out of INBOX
RemoteTrash(ml, id) == [ml EXCEPT ![id] = (@ \cup {"TRASH"}) \ {"INBOX"}]

\* a flag write that stores True whichever flag it is given
UpdateReadFlagAlwaysRead(store, email_id, flag) ==
    IF email_id \in DOMAIN store
    THEN [store EXCEPT ![email_id].is_read = TRUE]
    ELSE store

\* query(Email).filter_by(id=email_id).first(), the flag write and the commit
UpdateReadFlag(store, email_id, flag) ==
    IF email_id \in DOMAIN store
    THEN [store EXCEPT ![email_id].is_read = flag]
    ELSE store

\* a lookup that never finds a label
FindLabelBlind(lbls, label_name) == 0

\* a lookup that compares names exactly
FindLabelExact(lbls, label_name) ==
    IF \E n \in 1..Len(lbls) : lbls[n].name = label_name
    THEN CHOOSE n \in 1..Len(lbls) :
            /\ lbls[n].name = label_name
            /\ \A m \in 1..(n - 1) : lbls[m].name # label_name
    ELSE 0

\* next(label for label in labels if label.name.lower() == label_name.lower()):
\* the position of the first match, 0 for None
FindLabel(lbls, label_name) ==
    IF \E n \in 1..Len(lbls) : Lower(lbls[n].name) = Lower(label_name)
    THEN CHOOSE n \in 1..Len(lbls) :
            /\ Lower(lbls[n].name) = Lower(label_name)
            /\ \A m \in 1..(n - 1) : Lower(lbls[m].name) # Lower(label_name)
    ELSE 0

\* the label the service returns from labels().create
CreatedLabel(lbls, label_name) ==
    [id |-> "Label_" \o ToString(Len(lbls) + 1), name |-> label_name]

\* a modify-only branch that also writes the read flag of the local row
ModifyOnlyMirrored(lbls, ml, store, email_id, add, remove, fp) ==
    LET written == IF email_id \in DOMAIN store
                   THEN [store EXCEPT ![email_id].is_read = TRUE]
                   ELSE store
    IN  IF fp = 1
        THEN [labels |-> lbls, msgLabels |-> ml, db |-> written,
              made |-> <<RemoteCall("modify", email_id, add, remove, <<>>, FALSE)>>]
        ELSE [labels |-> lbls,
              msgLabels |-> [ml EXCEPT ![email_id] = (@ \cup add) \ remove],
              db |-> written,
              made |-> <<RemoteCall("modify", email_id, add, remove, <<>>, TRUE)>>]

\* the branches of _apply_action that make one modify call and keep the
\* store out of it: add_star, remove_star, archive_message
ModifyOnly(lbls, ml, store, email_id, add, remove, fp) ==
    IF fp = 1
    THEN Outcome(lbls, ml, store, <<RemoteCall("modify", email_id, add, remove, <<>>, FALSE)>>)
    ELSE Outcome(lbls, RemoteModify(ml, email_id, add, remove), store,
                 <<RemoteCall("modify", email_id, add, remove, <<>>, TRUE)>>)

\* a mark branch that writes the local flag before it calls the service
MarkFlagLocalFirst(lbls, ml, store, email_id, add, remove, flag, fp) ==
    LET written == IF email_id \in DOMAIN store
                   THEN [store EXCEPT ![email_id].is_read = flag]
                   ELSE store
    IN  IF fp = 1
        THEN [labels |-> lbls, msgLabels |-> ml, db |-> written,
              made |-> <<RemoteCall("modify", email_id, add, remove, <<>>, FALSE)>>]
        ELSE [labels |-> lbls,
              msgLabels |-> [ml EXCEPT ![email_id] = (@ \cup add) \ remove],
              db |-> written,
              made |-> <<RemoteCall("modify", email_id, add, remove, <<>>, TRUE)>>]

\* mark_as_read and mark_as_unread: the modify call, then the local flag
MarkFlag(lbls, ml, store, email_id, add, remove, flag, fp) ==
    IF fp = 1
    THEN Outcome(lbls, ml, store, <<RemoteCall("modify", email_id, add, remove, <<>>, FALSE)>>)
    ELSE Outcome(lbls, RemoteModify(ml, email_id, add, remove),
                 UpdateReadFlag(store, email_id, flag),
                 <<RemoteCall("modify", email_id, add, remove, <<>>, TRUE)>>)

\* move_message: list, create when the lookup finds nothing, attach
MoveMessage(lbls, ml, store, email_id, label_name, fp) ==
    LET found == FindLabel(lbls, label_name)
        listed(ok) == RemoteCall("list", "", {}, {}, <<>>, ok)
        created(ok) == RemoteCall("create", "", {}, {}, label_name, ok)
        attached(lid, ok) == RemoteCall("modify", email_id, {lid}, {}, <<>>, ok)
        fresh == CreatedLabel(lbls, label_name)
    IN  IF fp = 1 THEN Outcome(lbls, ml, store, <<listed(FALSE)>>)
        ELSE IF found # 0
        THEN IF fp = 2
             THEN Outcome(lbls, ml, store, <<listed(TRUE), attached(lbls[found].id, FALSE)>>)
             ELSE Outcome(lbls, RemoteModify(ml, email_id, {lbls[found].id}, {}), store,
                          <<listed(TRUE), attached(lbls[found].id, TRUE)>>)
        ELSE IF fp = 2 THEN Outcome(lbls, ml, store, <<listed(TRUE), created(FALSE)>>)
        ELSE IF fp = 3
        THEN Outcome(Append(lbls, fresh), ml, store,
                     <<listed(TRUE), created(TRUE), attached(fresh.id, FALSE)>>)
        ELSE Outcome(Append(lbls, fresh), RemoteModify(ml, email_id, {fresh.id}, {}), store,
                     <<listed(TRUE), created(TRUE), attached(fresh.id, TRUE)>>)

\* move_to_trash: one trash call
MoveToTrash(lbls, ml, store, email_id, fp) ==
    IF fp = 1
    THEN Outcome(lbls, ml, store, <<RemoteCall("trash", email_id, {}, {}, <<>>, FALSE)>>)
    ELSE Outcome(lbls, RemoteTrash(ml, email_id), store,
                 <<RemoteCall("trash", email_id, {}, {}, <<>>, TRUE)>>)

\* how many Mailbox Service calls the action makes when none of them fails
RemoteCallCount(svc, lbls, action) ==
    IF svc = "None" \/ action.type \notin ActionTypes THEN 0
    ELSE IF action.type # "move_message" THEN 1
    ELSE IF FindLabel(lbls, action.params.label) # 0 THEN 2
    ELSE 3

\* RuleProcessor._apply_action; fp is the remote call that fails, 0 for none
apply_action(svc, lbls, ml, store, email_id, action, fp) ==
    IF svc = "None" THEN Outcome(lbls, ml, store, <<>>)
    ELSE CASE action.type = "mark_as_read" ->
                MarkFlag(lbls, ml, store, email_id, {}, {"UNREAD"}, TRUE, fp)
           [] action.type = "mark_as_unread" ->
                MarkFlag(lbls, ml, store, email_id, {"UNREAD"}, {}, FALSE, fp)
           [] action.type = "add_star" ->
                ModifyOnly(lbls, ml, store, email_id, {"STARRED"}, {}, fp)
           [] action.type = "remove_star" ->
                ModifyOnly(lbls, ml, store, email_id, {}, {"STARRED"}, fp)
           [] action.type = "move_message" ->
                MoveMessage(lbls, ml, store, email_id, action.params.label, fp)
           [] action.type = "move_to_trash" ->
                MoveToTrash(lbls, ml, store, email_id, fp)
           [] action.type = "archive_message" ->
                ModifyOnly(lbls, ml, store, email_id, {}, {"INBOX"}, fp)
           [] OTHER -> Outcome(lbls, ml, store, <<>>)

(* ------------------------------ the inputs ----------------------------- *)
MsgIds == {"m1", "m2", "m3"}

Email(id, sender, to, subject, body, received, is_read) ==
    [id |-> id, sender |-> sender, to |-> to, subject |-> subject, body |-> body,
     received |-> received, is_read |-> is_read]

\* the rows ingestion may have stored; m1 and m3 carry the same timestamp
EmailCatalog ==
    [m1 |-> Email("m1", <<"a">>, <<"b">>, <<"A", "b">>, <<>>, 2, FALSE),
     m2 |-> Email("m2", <<"b">>, <<"a">>, <<"b">>, <<"a">>, 1, TRUE),
     m3 |-> Email("m3", <<"a", "b">>, <<>>, <<"a">>, <<"B">>, 2, FALSE)]

StoredIdSets == {{}, {"m2"}, {"m1", "m2"}, {"m1", "m3"}}

Stores == {[id \in ids |-> EmailCatalog[id]] : ids \in StoredIdSets}

\* a store ingested before the mailbox marked m1 unread and m2 read: both
\* read flags say what the mailbox said then
StaleStores ==
    {[id \in {"m1", "m2"} |-> [EmailCatalog[id] EXCEPT !.is_read = (id = "m1")]]}

SystemLabels ==
    <<[id |-> "INBOX", name |-> <<"INBOX">>], [id |-> "UNREAD", name |-> <<"UNREAD">>],
      [id |-> "STARRED", name |-> <<"STARRED">>], [id |-> "TRASH", name |-> <<"TRASH">>]>>

LabelLists == {SystemLabels, Append(SystemLabels, [id |-> "Label_5", name |-> <<"A">>])}

\* the remote labels of a message as ingestion saw them: fetch_emails stores
\* is_read = 'UNREAD' not in labelIds
IngestedLabels(id) ==
    IF EmailCatalog[id].is_read THEN {"INBOX"} ELSE {"INBOX", "UNREAD"}

Condition(field, predicate, value) ==
    [field |-> field, predicate |-> predicate, value |-> value]

Action(type, label) == [type |-> type, params |-> [label |-> label]]

Rule(name, predicate, conditions, actions) ==
    [name |-> name, conditions |-> [predicate |-> predicate, rules |-> conditions],
     actions |-> actions]

RuleCatalog ==
    {Rule("subject", "All", <<Condition("Subject", "Contains", <<"a">>)>>,
          <<Action("mark_as_read", <<>>), Action("add_star", <<>>)>>),
     Rule("anyone", "Any", <<Condition("From", "Equals", <<"B">>),
                             Condition("To", "Equals", <<"B">>)>>,
          <<Action("move_message", <<"a">>)>>),
     Rule("baddate", "Any", <<Condition("Received", "Less Than", <<"a">>),
                              Condition("Subject", "Contains", <<"a">>)>>,
          <<Action("archive_message", <<>>)>>),
     Rule("newer", "All", <<Condition("Received", "Greater Than", <<"1", "Z">>)>>,
          <<Action("mark_as_unread", <<>>), Action("move_to_trash", <<>>)>>),
     Rule("every", "All", <<>>,
          <<Action("remove_star", <<>>), Action("archive_message", <<>>)>>),
     Rule("unknown", "Any", <<Condition("Cc", "Does not Contain", <<"a">>)>>,
          <<Action("add_star", <<>>)>>)}

RECURSIVE SeqsUpTo(_, _)
\* the sequences over S of length at most n
SeqsUpTo(S, n) ==
    IF n = 0 THEN {<<>>}
    ELSE LET shorter == SeqsUpTo(S, n - 1)
         IN  shorter \cup {Append(q, x) : q \in shorter, x \in S}

\* the rules document: readable with a rule list, or one of the broken kinds
RulesFiles ==
    {[kind |-> "ok", rules |-> rs] : rs \in SeqsUpTo(RuleCatalog, MaxRules)}
    \cup {[kind |-> k, rules |-> <<>>] : k \in {"missing", "invalid", "nokey"}}

(* ----------------------------- construction ---------------------------- *)
\* _load_rules that falls back to a default rule
load_rules_default(file) ==
    IF file.kind = "ok" THEN file.rules
    ELSE <<CHOOSE r \in RuleCatalog : r.name = "every">>

\* RuleProcessor._load_rules: json.load(f)['rules'], [] on any exception
load_rules(file) == IF file.kind = "ok" THEN file.rules ELSE <<>>

\* auth.get_gmail_service: None when the refresh, the OAuth flow or the
\* client build raises
get_gmail_service(creds, refreshOK, flowOK, buildOK) ==
    IF creds = "expired" /\ ~refreshOK THEN "None"
    ELSE IF creds = "absent" /\ ~flowOK THEN "None"
    ELSE IF ~buildOK THEN "None"
    ELSE "service"

\* a constructor that does not test the session factory
ConstructUnchecked ==
    /\ pc = "new"
    /\ \E creds \in {"valid", "expired", "absent"}, refreshOK \in BOOLEAN,
          flowOK \in BOOLEAN, buildOK \in BOOLEAN, dbOK \in BOOLEAN :
          /\ gmail_service' = get_gmail_service(creds, refreshOK, flowOK, buildOK)
          /\ rules' = load_rules(rules_file)
          /\ pc' = "ready"
          /\ session' = IF dbOK THEN "open" ELSE session
    /\ UNCHANGED <<rules_file, db, db0, labels, msgLabels, emails, cur,
                   processed_count, calls, applied, before, probe, verdict>>

\* RuleProcessor.__init__
Construct ==
    /\ pc = "new"
    /\ \E creds \in {"valid", "expired", "absent"}, refreshOK \in BOOLEAN,
          flowOK \in BOOLEAN, buildOK \in BOOLEAN, dbOK \in BOOLEAN :
          /\ gmail_service' = get_gmail_service(creds, refreshOK, flowOK, buildOK)
          /\ rules' = load_rules(rules_file)
          /\ IF dbOK
             THEN pc' = "ready" /\ session' = "open"
             ELSE pc' = "fatal" /\ session' = session
    /\ UNCHANGED <<rules_file, db, db0, labels, msgLabels, emails, cur,
                   processed_count, calls, applied, before, probe, verdict>>

\* __main__, lines 243-245: the handler of the prompt loop prints the error
\* of a construction that raised and the loop prompts again; the processor
\* that failed is gone
TryAgain ==
    /\ pc = "fatal"
    /\ pc' = "new"
    /\ gmail_service' = "None"
    /\ rules' = <<>>
    /\ UNCHANGED <<session, rules_file, db, db0, labels, msgLabels, emails, cur,
                   processed_count, calls, applied, before, probe, verdict>>

(* ------------------------------ the pass ------------------------------- *)
\* the orders query.order_by(Email.received.desc()) may return the rows in:
\* rows of equal timestamp come in either order
DescOrders(store) ==
    LET ids == DOMAIN store
        n == Cardinality(ids)
    IN  {q \in [1..n -> ids] :
            /\ \A a, b \in 1..n : a # b => q[a] # q[b]
            /\ \A a, b \in 1..n : a < b => store[q[a]].received >= store[q[b]].received}

\* query.limit(limit) when a limit is given
Limited(q, limit) ==
    IF limit.none \/ limit.n >= Len(q) THEN q ELSE SubSeq(q, 1, limit.n)

Limits == {[none |-> TRUE, n |-> 0]} \cup {[none |-> FALSE, n |-> n] : n \in 0..2}

NumFailed(cs) == Cardinality({n \in 1..Len(cs) : ~cs[n].ok})

\* the remote call of one invocation that may fail: none, or any one of them
FailurePoints(svc, lbls, action, mayFail) ==
    {0} \cup (IF mayFail THEN 1..RemoteCallCount(svc, lbls, action) ELSE {})

Invocation(id, rule, idx, action, fp) ==
    [id |-> id, rule |-> rule, idx |-> idx, action |-> action, fp |-> fp]

Snapshot(lbls, ml, store, cs) ==
    [labels |-> lbls, msgLabels |-> ml, db |-> store, ncalls |-> Len(cs)]

\* the position after the last action of a rule: the next rule
AfterActions(c) == [i |-> c.i, j |-> c.j + 1, k |-> 0]

\* process_emails, lines 185-194: the query
StartPass ==
    /\ pc = "ready"
    /\ \E limit \in Limits, q \in DescOrders(db) : emails' = Limited(q, limit)
    /\ cur' = [i |-> 1, j |-> 1, k |-> 0]
    /\ pc' = "run"
    /\ UNCHANGED <<gmail_service, session, rules_file, rules, db, db0, labels,
                   msgLabels, processed_count, calls, applied, before, probe, verdict>>

\* process_emails, line 199: one rule against the current row; an exception
\* of the evaluator leaves the loops for the handler of line 209
EvaluateRule ==
    /\ pc = "run"
    /\ cur.k = 0
    /\ cur.i <= Len(emails)
    /\ cur.j <= Len(rules)
    /\ LET email == db[emails[cur.i]]
           rule == rules[cur.j]
           result == evaluate_rule_conditions(email, rule.conditions)
       IN  IF result.raised
           THEN pc' = "aborted" /\ session' = "closed" /\ cur' = cur
           ELSE /\ pc' = pc
                /\ session' = session
                /\ cur' = IF result.value /\ rule.actions # <<>>
                          THEN [cur EXCEPT !.k = 1]
                          ELSE [cur EXCEPT !.j = @ + 1]
    /\ UNCHANGED <<gmail_service, rules_file, rules, db, db0, labels, msgLabels,
                   emails, processed_count, calls, applied, before, probe, verdict>>

\* process_emails, lines 201-202: one action of the matched rule
ApplyAction ==
    /\ pc = "run"
    /\ cur.k >= 1
    /\ LET id == emails[cur.i]
           action == rules[cur.j].actions[cur.k]
       IN  \E fp \in FailurePoints(gmail_service, labels, action,
                                   NumFailed(calls) < MaxFailures) :
              LET out == apply_action(gmail_service, labels, msgLabels, db, id, action, fp)
              IN  /\ labels' = out.labels
                  /\ msgLabels' = out.msgLabels
                  /\ db' = out.db
                  /\ calls' = calls \o out.made
                  /\ applied' = Append(applied, Invocation(id, cur.j, cur.k, action, fp))
                  /\ before' = Snapshot(labels, msgLabels, db, calls)
    /\ cur' = IF cur.k < Len(rules[cur.j].actions)
              THEN [cur EXCEPT !.k = @ + 1]
              ELSE AfterActions(cur)
    /\ UNCHANGED <<pc, gmail_service, session, rules_file, rules, db0, emails,
                   processed_count, probe, verdict>>

\* process_emails, lines 203-205: the row is done
NextEmail ==
    /\ pc = "run"
    /\ cur.k = 0
    /\ cur.i <= Len(emails)
    /\ cur.j > Len(rules)
    /\ processed_count' = processed_count + 1
    /\ cur' = [i |-> cur.i + 1, j |-> 1, k |-> 0]
    /\ UNCHANGED <<pc, gmail_service, session, rules_file, rules, db, db0, labels,
                   msgLabels, emails, calls, applied, before, probe, verdict>>

\* process_emails, lines 207 and 213: the summary and session.close()
FinishPass ==
    /\ pc = "run"
    /\ cur.i > Len(emails)
    /\ pc' = "done"
    /\ session' = "closed"
    /\ UNCHANGED <<gmail_service, rules_file, rules, db, db0, labels, msgLabels,
                   emails, cur, processed_count, calls, applied, before, probe, verdict>>

(* ------------------------------ ingestion ------------------------------ *)
Header(name, value) == [name |-> name, value |-> value]

\* a payload body with a data key, and one without
Data(text) == [has |-> TRUE, data |-> text]

NoData == [has |-> FALSE, data |-> <<>>]

\* messages().get(format='full') of each message of the mailbox: the headers
\* in message order, the payload body and the bodies of the payload parts;
\* m3 carries no To and no Date header
Mailbox ==
    [m1 |-> [headers |-> <<Header("From", <<"a">>), Header("TO", <<"b">>),
                           Header("Subject", <<"A", "b">>),
                           Header("subject", <<"b">>),
                           Header("Date", <<"2", "Z">>)>>,
             body |-> NoData, parts |-> <<>>],
     m2 |-> [headers |-> <<Header("subject", <<"b">>), Header("from", <<"b">>),
                           Header("To", <<"a">>), Header("date", <<"1", "+1">>)>>,
             body |-> Data(<<"a">>), parts |-> <<Data(<<"b">>)>>],
     m3 |-> [headers |-> <<Header("From", <<"a", "b">>), Header("Subject", <<"a">>)>>,
             body |-> NoData, parts |-> <<Data(<<"B">>), Data(<<"a">>)>>]]

\* h['name'].lower()
LowerName(name) ==
    CASE name \in {"From", "FROM"} -> "from"
      [] name \in {"To", "TO"} -> "to"
      [] name \in {"Subject", "SUBJECT"} -> "subject"
      [] name \in {"Date", "DATE"} -> "date"
      [] OTHER -> name

\* next((h['value'] for h in headers if h['name'].lower() == name), '')
HeaderValue(headers, name) ==
    IF \E n \in 1..Len(headers) : LowerName(headers[n].name) = name
    THEN headers[CHOOSE n \in 1..Len(headers) :
                    /\ LowerName(headers[n].name) = name
                    /\ \A m \in 1..(n - 1) : LowerName(headers[m].name) # name].value
    ELSE <<>>

\* the payload body's data when it has the key, else the data of the first
\* part, else the empty text
BodyText(payload) ==
    IF payload.body.has THEN payload.body.data
    ELSE IF payload.parts # <<>> /\ payload.parts[1].has THEN payload.parts[1].data
    ELSE <<>>

\* email.utils.parsedate_to_datetime raises on a text that holds no date
ParsedateRaises(s) ==
    ~ \/ Len(s) = 1 /\ s[1] \in TimeTokens
      \/ Len(s) = 2 /\ s[1] \in TimeTokens /\ s[2] \in ZoneTokens

\* email.utils.parsedate_to_datetime on a text it accepts
parsedate_to_datetime(s) ==
    IF Len(s) = 2 THEN Aware(TimeOf(s[1]), ZoneOffset(s[2]))
    ELSE Naive(TimeOf(s[1]))

\* fetch_emails.parse_email_date: datetime.now() for a date it cannot parse
parse_email_date(date_str, now) ==
    IF ParsedateRaises(date_str) THEN Naive(now) ELSE parsedate_to_datetime(date_str)

\* the DateTime column keeps the wall clock of a datetime and drops its offset
StoredDatetime(d) == d.t

\* the Email object of lines 84-105 for one message of the mailbox
FetchedEmail(id, ml, now) ==
    Email(id,
          HeaderValue(Mailbox[id].headers, "from"),
          HeaderValue(Mailbox[id].headers, "to"),
          HeaderValue(Mailbox[id].headers, "subject"),
          BodyText(Mailbox[id]),
          StoredDatetime(parse_email_date(HeaderValue(Mailbox[id].headers, "date"), now)),
          "UNREAD" \notin ml[id])

\* what datetime.now() reads while a message is ingested: the latest second
\* or the one before it
ClockReadings == {MaxTime - 1, MaxTime}

\* the messages carrying the INBOX label
InboxIds(ml) == {id \in MsgIds : "INBOX" \in ml[id]}

\* max_results: None, or a number of messages
MaxResults == {[none |-> TRUE, n |-> 0]} \cup {[none |-> FALSE, n |-> n] : n \in {2}}

\* what messages().list answers: every page's messages without max_results,
\* one page of at most max_results messages with it
Listings(ml, max_results) ==
    IF max_results.none THEN {InboxIds(ml)}
    ELSE {listed \in SUBSET InboxIds(ml) :
            Cardinality(listed) = IF max_results.n < Cardinality(InboxIds(ml))
                                  THEN max_results.n
                                  ELSE Cardinality(InboxIds(ml))}

\* what get_gmail_service() may return
ServiceResults ==
    {get_gmail_service(creds, refreshOK, flowOK, buildOK) :
        creds \in {"valid", "expired", "absent"}, refreshOK \in BOOLEAN,
        flowOK \in BOOLEAN, buildOK \in BOOLEAN}

\* fetch_emails.fetch_and_store_emails: the store it leaves and the count it
\* returns.  Without a service or a session factory, and when a list or get
\* call raises, nothing is committed and 0 is returned; else every listed
\* message is merged: inserted, or written over the row of the same id
fetch_and_store_emails(service, Session, readsOK, listed, ml, store, now) ==
    IF service = "None" \/ ~Session \/ ~readsOK
    THEN [db |-> store, count |-> 0]
    ELSE [db |-> [id \in DOMAIN store \cup listed |->
                    IF id \in listed THEN FetchedEmail(id, ml, now) ELSE store[id]],
          count |-> Cardinality(listed)]

\* a run of fetch_emails.py before the processor's pass
FetchAndStoreEmails ==
    /\ pc \in {"new", "ready"}
    /\ \E service \in ServiceResults, Session \in BOOLEAN, readsOK \in BOOLEAN,
          max_results \in MaxResults, now \in ClockReadings :
          \E listed \in Listings(msgLabels, max_results) :
              LET out == fetch_and_store_emails(service, Session, readsOK, listed,
                                                msgLabels, db, now)
              IN  /\ db' = out.db
                  /\ db0' = out.db
                  /\ before' = Snapshot(labels, msgLabels, out.db, calls)
    /\ UNCHANGED <<pc, gmail_service, session, rules_file, rules, labels, msgLabels,
                   emails, cur, processed_count, calls, applied, probe, verdict>>

NoProbe == [call |-> "none", email |-> EmailCatalog["m1"],
            rule_conditions |-> [predicate |-> "All", rules |-> <<>>]]

NoVerdict == [raised |-> FALSE, value |-> FALSE, leaves |-> <<>>]

\* a run of the command line: the store as an earlier ingestion left it, the
\* processor not yet built
Init ==
    /\ pc = "new"
    /\ gmail_service = "None"
    /\ session = "unset"
    /\ rules_file \in RulesFiles
    /\ rules = <<>>
    /\ db \in Stores \cup StaleStores
    /\ db0 = db
    /\ labels = SystemLabels
    /\ msgLabels = [id \in MsgIds |-> IngestedLabels(id)]
    /\ emails = <<>>
    /\ cur = [i |-> 0, j |-> 0, k |-> 0]
    /\ processed_count = 0
    /\ calls = <<>>
    /\ applied = <<>>
    /\ before = Snapshot(labels, msgLabels, db, calls)
    /\ probe = NoProbe
    /\ verdict = NoVerdict

Next ==
    \/ FetchAndStoreEmails
    \/ Construct
    \/ TryAgain
    \/ StartPass
    \/ EvaluateRule
    \/ ApplyAction
    \/ NextEmail
    \/ FinishPass

Spec == Init /\ [][Next]_vars

(* ---------------------- the evaluator, called directly ------------------ *)
Fields == TextFields \cup {"Received", "Cc"}

Predicates == {"Contains", "Does not Contain", "Equals", "Does not Equal",
               "Less Than", "Greater Than", "Matches"}

DateLiterals ==
    {<<t>> : t \in TimeTokens} \cup {<<t, z>> : t \in TimeTokens, z \in ZoneTokens}

Values == {<<>>, <<"a">>, <<"A">>, <<"b">>, <<"a", "b">>, <<"Z">>} \cup DateLiterals

\* the catalog rows at every timestamp
EvalEmails ==
    {[EmailCatalog[id] EXCEPT !.received = t] : id \in MsgIds, t \in Times}

\* leaves that are true, false or raising on the catalog rows
CondCatalog ==
    {Condition("Subject", "Contains", <<"a">>),
     Condition("From", "Equals", <<"B">>),
     Condition("Message", "Does not Equal", <<>>),
     Condition("Received", "Greater Than", <<"1", "Z">>),
     Condition("Received", "Less Than", <<"a">>),
     Condition("Cc", "Does not Contain", <<"a">>)}

Combinators == {"All", "Any", "None"}

\* a test calling processor._evaluate_condition(email, condition)
EvaluateCondition ==
    /\ pc = "eval"
    /\ \E email \in EvalEmails, field \in Fields, predicate \in Predicates,
          value \in Values :
          LET condition == Condition(field, predicate, value)
              result == evaluate_condition(email, condition)
          IN  /\ probe' = [call |-> "condition", email |-> email,
                           rule_conditions |-> [predicate |-> "All",
                                                rules |-> <<condition>>]]
              /\ verdict' = [raised |-> result.raised, value |-> result.value,
                             leaves |-> <<result>>]
    /\ pc' = "evaluated"
    /\ UNCHANGED <<gmail_service, session, rules_file, rules, db, db0, labels,
                   msgLabels, emails, cur, processed_count, calls, applied, before>>

\* a test calling processor._evaluate_rule_conditions(email, rule_conditions)
EvaluateRuleConditions ==
    /\ pc = "eval"
    /\ \E email \in EvalEmails, predicate \in Combinators,
          conditions \in SeqsUpTo(CondCatalog, MaxConds) :
          LET rule_conditions == [predicate |-> predicate, rules |-> conditions]
              result == evaluate_rule_conditions(email, rule_conditions)
          IN  /\ probe' = [call |-> "rule_conditions", email |-> email,
                           rule_conditions |-> rule_conditions]
              /\ verdict' = [raised |-> result.raised, value |-> result.value,
                             leaves |-> LeafResults(email, conditions)]
    /\ pc' = "evaluated"
    /\ UNCHANGED <<gmail_service, session, rules_file, rules, db, db0, labels,
                   msgLabels, emails, cur, processed_count, calls, applied, before>>

\* a constructed processor whose evaluator is called by hand, as test_rules does
InitEval ==
    /\ pc = "eval"
    /\ gmail_service \in {"service", "None"}
    /\ session = "open"
    /\ rules_file = [kind |-> "missing", rules |-> <<>>]
    /\ rules = <<>>
    /\ db = [id \in {} |-> EmailCatalog["m1"]]
    /\ db0 = db
    /\ labels = SystemLabels
    /\ msgLabels = [id \in MsgIds |-> IngestedLabels(id)]
    /\ emails = <<>>
    /\ cur = [i |-> 0, j |-> 0, k |-> 0]
    /\ processed_count = 0
    /\ calls = <<>>
    /\ applied = <<>>
    /\ before = Snapshot(labels, msgLabels, db, calls)
    /\ probe = NoProbe
    /\ verdict = NoVerdict

NextEval == EvaluateCondition \/ EvaluateRuleConditions

SpecEval == InitEval /\ [][NextEval]_vars

(* ------------------ the action applicator, called directly ------------- *)
DirectActions ==
    {Action(t, <<>>) : t \in (ActionTypes \ {"move_message"}) \cup {"forward"}}
    \cup {Action("move_message", l) : l \in {<<"a">>, <<"B">>}}

\* a test calling processor._apply_action(email_id, action)
ApplyDirect ==
    /\ pc = "ready"
    /\ Len(applied) < MaxCalls
    /\ \E id \in MsgIds, action \in DirectActions :
          \E fp \in FailurePoints(gmail_service, labels, action, TRUE) :
              LET out == apply_action(gmail_service, labels, msgLabels, db, id, action, fp)
              IN  /\ labels' = out.labels
                  /\ msgLabels' = out.msgLabels
                  /\ db' = out.db
                  /\ calls' = calls \o out.made
                  /\ applied' = Append(applied, Invocation(id, 0, 0, action, fp))
                  /\ before' = Snapshot(labels, msgLabels, db, calls)
    /\ UNCHANGED <<pc, gmail_service, session, rules_file, rules, db0, emails, cur,
                   processed_count, probe, verdict>>

\* a constructed processor with a live service, before any pass
InitDirect ==
    /\ pc = "ready"
    /\ gmail_service = "service"
    /\ session = "open"
    /\ rules_file = [kind |-> "missing", rules |-> <<>>]
    /\ rules = <<>>
    /\ db \in Stores
    /\ db0 = db
    /\ labels \in LabelLists
    /\ msgLabels = [id \in MsgIds |-> IngestedLabels(id)]
    /\ emails = <<>>
    /\ cur = [i |-> 0, j |-> 0, k |-> 0]
    /\ processed_count = 0
    /\ calls = <<>>
    /\ applied = <<>>
    /\ before = Snapshot(labels, msgLabels, db, calls)
    /\ probe = NoProbe
    /\ verdict = NoVerdict

NextDirect == ApplyDirect

SpecDirect == InitDirect /\ [][NextDirect]_vars

(* =============================== claims ================================ *)
RECURSIVE Flatten(_)
Flatten(qs) == IF qs = <<>> THEN <<>> ELSE Head(qs) \o Flatten(Tail(qs))

\* the pass is over: completed, or left through the handler of line 209
PassEnded == pc \in {"done", "aborted"}

\* the rule's conditions match the row: the matcher returns true
RuleMatchesRow(id, j) ==
    LET result == evaluate_rule_conditions(db[id], rules[j].conditions)
    IN  ~result.raised /\ result.value

\* what claim C1 has the pass invoke: rows in working-set order, rules in
\* file order, the actions of each matching rule in list order
ExpectedInvocations ==
    Flatten([i \in 1..Len(emails) |->
        Flatten([j \in 1..Len(rules) |->
            IF RuleMatchesRow(emails[i], j)
            THEN [k \in 1..Len(rules[j].actions) |-> <<emails[i], j, k>>]
            ELSE <<>>])])

\* the invocations the pass made: message id, rule position, action position
MadeInvocations ==
    [n \in 1..Len(applied) |-> <<applied[n].id, applied[n].rule, applied[n].idx>>]

\* the working set is in received-timestamp descending order
WorkingSetDescending ==
    \A a, b \in 1..Len(emails) :
        a < b => db[emails[a]].received >= db[emails[b]].received

\* C1: when a pass has ended, the invocations it made are exactly those of
\* every working-set message (newest first) against every rule in file order,
\* each matching rule contributing all its actions in list order, a match by
\* an earlier rule never hiding a later rule.
C1_EveryMatchingRuleApplied ==
    PassEnded => WorkingSetDescending /\ MadeInvocations = ExpectedInvocations

\* C2: when a pass in which some Mailbox Service call failed has ended, every
\* remaining action, rule and message was still handled: the invocations made
\* are all those of the matching rules, failed ones included.
C2_FailureDoesNotStopThePass ==
    (PassEnded /\ NumFailed(calls) > 0) =>
        /\ processed_count = Len(emails)
        /\ \A i \in 1..Len(emails), j \in 1..Len(rules) :
              RuleMatchesRow(emails[i], j) =>
                \A k \in 1..Len(rules[j].actions) :
                    \E n \in 1..Len(applied) :
                        MadeInvocations[n] = <<emails[i], j, k>>

HasUnparsableDate(rule) ==
    \E n \in 1..Len(rule.conditions.rules) :
        /\ rule.conditions.rules[n].field = "Received"
        /\ ParseRaises(rule.conditions.rules[n].value)

\* C3: a Received condition whose value is no date makes that one condition
\* false and never aborts the pass: a pass that met such a rule still
\* completes over every rule and message.
C3_UnparsableDateDoesNotAbort ==
    (PassEnded /\ \E j \in 1..Len(rules) : HasUnparsableDate(rules[j])) =>
        pc = "done" /\ processed_count = Len(emails)

\* the pass has begun: rows were queried
PassBegun == pc \in {"run", "done", "aborted"}

\* the Mailbox Service holds what it held when the store was ingested
RemoteAsIngested ==
    /\ msgLabels = [id \in MsgIds |-> IngestedLabels(id)]
    /\ labels \in LabelLists

\* C4, as claimed: once construction has found the session factory missing or
\* the service None, the run is aborted and no pass ever begins.
C4_AnyInitFailureAborts ==
    (pc # "new" /\ (session = "unset" \/ gmail_service = "None")) =>
        (pc = "fatal" /\ ~PassBegun /\ applied = <<>>)

\* C4, amended: a missing session factory makes construction raise before any
\* row is queried, any rule evaluated or any action attempted, and no pass
\* begins until a construction has found the factory; a None service lets the
\* pass run, and then no invocation makes a Mailbox Service call or writes to
\* the store or the service.
C4_StoreFailureFatalServiceFailureInert ==
    /\ (pc # "new" /\ session = "unset") =>
          (pc = "fatal" /\ emails = <<>> /\ cur.i = 0 /\ applied = <<>> /\ calls = <<>>)
    /\ PassBegun => session # "unset"
    /\ (pc # "new" /\ gmail_service = "None") =>
          (calls = <<>> /\ db = db0 /\ RemoteAsIngested)

\* a pass that ran without a service and still invoked _apply_action
C4_Witness ==
    pc = "done" /\ gmail_service = "None" /\ Len(applied) >= 2 /\ calls = <<>>

LastInvocation == applied[Len(applied)]

\* the Mailbox Service calls the last invocation made
LastMade == SubSeq(calls, before.ncalls + 1, Len(calls))

MarkTypes == {"mark_as_read", "mark_as_unread"}

\* C5: after a mark_as_read or mark_as_unread whose call succeeded on a message
\* with a local row, whatever came before it, the remote UNREAD marker and the
\* local flag are those of that last action.
C5_LastWriteWins ==
    (applied # <<>> /\ LastInvocation.action.type \in MarkTypes
        /\ LastInvocation.fp = 0 /\ LastInvocation.id \in DOMAIN db) =>
        IF LastInvocation.action.type = "mark_as_unread"
        THEN "UNREAD" \in msgLabels[LastInvocation.id] /\ ~db[LastInvocation.id].is_read
        ELSE "UNREAD" \notin msgLabels[LastInvocation.id] /\ db[LastInvocation.id].is_read

\* mark_as_read then mark_as_unread, both succeeding, on a stored message that
\* was read to begin with
C5_Witness ==
    /\ Len(applied) = 2
    /\ applied[1].action.type = "mark_as_read" /\ applied[1].fp = 0
    /\ applied[2].action.type = "mark_as_unread" /\ applied[2].fp = 0
    /\ applied[1].id = "m2" /\ applied[2].id = "m2" /\ "m2" \in DOMAIN db
    /\ "UNREAD" \in msgLabels["m2"] /\ ~db["m2"].is_read

Ops(cs) == [n \in 1..Len(cs) |-> cs[n].op]

\* C6: a move_message whose calls all succeed makes, when no label of the
\* service matches the requested name case-insensitively, one create call and
\* then one attach call with the created label's id; when a label matches, no
\* create call and one attach call with that label's id.
C6_MoveCreatesOnceOrNever ==
    (applied # <<>> /\ LastInvocation.action.type = "move_message"
        /\ LastInvocation.fp = 0) =>
        LET name == LastInvocation.action.params.label
            old == before.labels
            matches == {n \in 1..Len(old) : Lower(old[n].name) = Lower(name)}
        IN  IF matches = {}
            THEN /\ Ops(LastMade) = <<"list", "create", "modify">>
                 /\ LastMade[2].name = name
                 /\ Len(labels) = Len(old) + 1
                 /\ labels[Len(labels)].name = name
                 /\ \A n \in 1..Len(old) : old[n].id # labels[Len(labels)].id
                 /\ LastMade[3].add = {labels[Len(labels)].id}
                 /\ LastMade[3].id = LastInvocation.id
            ELSE /\ Ops(LastMade) = <<"list", "modify">>
                 /\ \E n \in matches : LastMade[2].add = {old[n].id}
                 /\ LastMade[2].id = LastInvocation.id
                 /\ labels = old

\* a move that created its label and a move that found a label under a name
\* of another case
C6_Witness ==
    /\ Len(applied) = 2
    /\ applied[1].action = Action("move_message", <<"B">>) /\ applied[1].fp = 0
    /\ applied[2].action = Action("move_message", <<"a">>) /\ applied[2].fp = 0
    /\ Ops(calls) = <<"list", "create", "modify", "list", "modify">>
    /\ calls[5].add = {"Label_5"}

RemoteOnlyTypes == {"add_star", "remove_star", "move_message", "move_to_trash",
                    "archive_message"}

\* C7: an invocation of add_star, remove_star, move_message, move_to_trash or
\* archive_message leaves the store as it found it, failed call or not; and
\* from its last ingestion on the store never gains or loses a row or changes
\* any field but is_read.
C7_OnlyReadFlagChanges ==
    /\ (applied # <<>> /\ LastInvocation.action.type \in RemoteOnlyTypes) =>
          db = before.db
    /\ DOMAIN db = DOMAIN db0
    /\ \A id \in DOMAIN db : [db[id] EXCEPT !.is_read = db0[id].is_read] = db0[id]

\* a pass that changed a read flag and then met a failing archive call
C7_Witness ==
    /\ pc = "done"
    /\ db # db0
    /\ applied # <<>>
    /\ LastInvocation.action.type = "archive_message"
    /\ LastInvocation.fp = 1

\* the call returned, and returned true
ReturnedTrue == ~verdict.raised /\ verdict.value

\* leaf n of the probed list evaluates to true: it returns, and returns true
LeafTrue(n) == ~verdict.leaves[n].raised /\ verdict.leaves[n].value

\* C8: for every condition list, the empty one and one holding a leaf that
\* raises included, _evaluate_rule_conditions returns true under All exactly
\* when every leaf evaluates to true and under Any exactly when some leaf
\* evaluates to true; on the empty list All returns true and Any false.
C8_AllAnyCombinators ==
    probe.call = "rule_conditions" =>
        /\ probe.rule_conditions.predicate = "All" =>
              (ReturnedTrue <=> \A n \in 1..Len(verdict.leaves) : LeafTrue(n))
        /\ probe.rule_conditions.predicate = "Any" =>
              (ReturnedTrue <=> \E n \in 1..Len(verdict.leaves) : LeafTrue(n))
        /\ probe.rule_conditions.rules = <<>> =>
              (~verdict.raised
                 /\ (probe.rule_conditions.predicate = "All" => verdict.value)
                 /\ (probe.rule_conditions.predicate = "Any" => ~verdict.value))

\* C9: a missing, invalid or rule-less rules document loads as the empty rule
\* set, and the pass over it makes no Mailbox Service call, changes no row,
\* is never aborted and counts every row of the working set.
C9_BrokenRulesFileIsNoOp ==
    (rules_file.kind # "ok" /\ pc # "new") =>
        /\ rules = <<>>
        /\ calls = <<>> /\ applied = <<>>
        /\ db = db0
        /\ RemoteAsIngested
        /\ pc # "aborted"
        /\ pc = "done" => processed_count = Len(emails)

\* a completed pass over two rows with an invalid rules document
C9_Witness ==
    rules_file.kind = "invalid" /\ pc = "done" /\ processed_count = 2

\* C10: when an invocation repeats the one before it (same message, same
\* action, every call succeeding both times) it leaves the message labels,
\* the label list and the store as the first one left them.
C10_RepeatedActionChangesNothing ==
    (Len(applied) >= 2
        /\ applied[Len(applied)] = applied[Len(applied) - 1]
        /\ LastInvocation.fp = 0) =>
        /\ msgLabels = before.msgLabels
        /\ labels = before.labels
        /\ db = before.db

\* move_message twice for a label the first invocation created
C10_Witness ==
    /\ Len(applied) = 2
    /\ applied[1] = applied[2]
    /\ applied[1].action.type = "move_message" /\ applied[1].fp = 0
    /\ Ops(calls) = <<"list", "create", "modify", "list", "modify">>

\* the one condition a direct _evaluate_condition call was given
ProbedCondition == probe.rule_conditions.rules[1]

OrderingPredicates == {"Less Than", "Greater Than"}

\* C11: on the Received field, for every literal the parser accepts, with a
\* zone or without, 'Less Than' returns true exactly when the row's timestamp
\* is strictly earlier than the literal and 'Greater Than' exactly when it is
\* strictly later; on a text field both return false for every value.
C11_StrictDateOrdering ==
    (probe.call = "condition" /\ ProbedCondition.predicate \in OrderingPredicates) =>
        /\ (ProbedCondition.field = "Received" /\ ~ParseRaises(ProbedCondition.value)) =>
              LET literal == parse(ProbedCondition.value)
                  stamp == probe.email.received
              IN  /\ ~verdict.raised
                  /\ verdict.value <=>
                        IF ProbedCondition.predicate = "Less Than"
                        THEN stamp < literal.t - literal.off
                        ELSE stamp > literal.t - literal.off
        /\ ProbedCondition.field \in TextFields =>
              (~verdict.raised /\ ~verdict.value)

KnownFields == TextFields \cup {"Received"}

\* C12: a condition whose field is not a recognized one returns false, and
\* does not raise, for every predicate and value; under All a condition list
\* holding such a leaf never matches, and that leaf never raises.
C12_UnknownFieldIsFalse ==
    /\ (probe.call = "condition" /\ ProbedCondition.field \notin KnownFields) =>
          (~verdict.raised /\ ~verdict.value)
    /\ (probe.call = "rule_conditions" /\ probe.rule_conditions.predicate = "All") =>
          \A n \in 1..Len(probe.rule_conditions.rules) :
              probe.rule_conditions.rules[n].field \notin KnownFields =>
                  /\ ~verdict.value
                  /\ ~verdict.leaves[n].raised /\ ~verdict.leaves[n].value

\* 'Does not Contain' on an unrecognized field returned false
C12_Witness ==
    /\ probe.call = "condition"
    /\ ProbedCondition.field = "Cc"
    /\ ProbedCondition.predicate = "Does not Contain"
    /\ ProbedCondition.value = <<"Z">>
    /\ ~verdict.raised /\ ~verdict.value

\* the local read flag of every stored row says what the remote marker says
FlagsAgree ==
    \A id \in DOMAIN db : db[id].is_read <=> "UNREAD" \notin msgLabels[id]

\* so far only mark_as_read and mark_as_unread were invoked
OnlyMarksApplied ==
    \A n \in 1..Len(applied) : applied[n].action.type \in MarkTypes

\* C13: a mark_as_read or mark_as_unread whose modify call fails changes
\* neither the remote labels nor the store; and from ingestion, where flag and
\* marker agree, they agree after any sequence of the two mark actions, failed
\* calls included.
C13_LocalFlagFollowsRemote ==
    /\ (applied # <<>> /\ LastInvocation.action.type \in MarkTypes
          /\ LastInvocation.fp = 1) =>
          (msgLabels = before.msgLabels /\ db = before.db /\ labels = before.labels)
    /\ OnlyMarksApplied => FlagsAgree

\* a mark_as_read on the unread row m1 that failed, then one that succeeded
C13_Witness ==
    /\ Len(applied) = 2
    /\ applied[1].id = "m1" /\ applied[2].id = "m1" /\ "m1" \in DOMAIN db
    /\ applied[1].action.type = "mark_as_read" /\ applied[1].fp = 1
    /\ applied[2].action.type = "mark_as_read" /\ applied[2].fp = 0
    /\ before.msgLabels["m1"] = {"INBOX", "UNREAD"} /\ ~before.db["m1"].is_read
    /\ db["m1"].is_read /\ "UNREAD" \notin msgLabels["m1"]

\* the attributes a condition can read
Readable(row) == <<row.sender, row.to, row.subject, row.body, row.received>>

\* the rule lists that hold the loaded rules in another order
Reorderings(rs) ==
    {[n \in 1..Len(rs) |-> rs[p[n]]] :
        p \in {q \in [1..Len(rs) -> 1..Len(rs)] :
                  \A a, b \in 1..Len(rs) : a # b => q[a] # q[b]}}

RECURSIVE PassActions(_, _, _, _, _)
\* the actions a pass over rule list rs applies to the rows ids, from row i
\* and rule j on: message id, rule name, action
PassActions(rs, ids, store, i, j) ==
    IF i > Len(ids) THEN {}
    ELSE IF j > Len(rs) THEN PassActions(rs, ids, store, i + 1, 1)
    ELSE LET result == evaluate_rule_conditions(store[ids[i]], rs[j].conditions)
         IN  IF result.raised THEN {}
             ELSE (IF result.value
                   THEN {<<ids[i], rs[j].name, rs[j].actions[k]>> :
                            k \in 1..Len(rs[j].actions)}
                   ELSE {})
                  \cup PassActions(rs, ids, store, i, j + 1)

\* the actions this pass applied: message id, rule name, action
AppliedActions ==
    {<<applied[n].id, rules[applied[n].rule].name, applied[n].action>> :
        n \in 1..Len(applied)}

\* C14: during a pass no row's sender, recipient, subject, body or timestamp
\* changes, so every rule's verdict on a row is the one it has on the row as
\* the pass found it, and every action applied belongs to a rule matching that
\* row; and a pass over the same rules in any other order applies the same
\* actions, only in another order.
C14_MatchesFixedAtStart ==
    PassBegun =>
        /\ \A id \in DOMAIN db : Readable(db[id]) = Readable(db0[id])
        /\ \A i \in 1..Len(emails), j \in 1..Len(rules) :
              evaluate_rule_conditions(db[emails[i]], rules[j].conditions)
                = evaluate_rule_conditions(db0[emails[i]], rules[j].conditions)
        /\ \A n \in 1..Len(applied) :
              LET start == evaluate_rule_conditions(db0[applied[n].id],
                                                    rules[applied[n].rule].conditions)
              IN  ~start.raised /\ start.value
        /\ PassEnded =>
              \A rs \in Reorderings(rules) :
                  AppliedActions = PassActions(rs, emails, db0, 1, 1)

====
